---------------------------- MODULE Spec2Model ----------------------------
(***************************************************************************)
(* Model of app.py (WordPulse): the persisted JSON document and the store  *)
(* operations that read and rewrite it under an optional file lock, and    *)
(* the admin credential check.                                             *)
(*                                                                         *)
(* Python values are tagged records ([t |-> "str", v |-> ...]) because the *)
(* code is dynamically typed: a persisted field may hold null, a number or *)
(* a list where a string is expected.  A Python str is a sequence of       *)
(* one-character strings.                                                  *)
(***************************************************************************)
EXTENDS Naturals, Sequences, FiniteSets

(***************************************************************************)
(* Bounds of the model.                                                    *)
(***************************************************************************)
\* number of threads that call a store operation concurrently
NumCallers == 2
\* longest string drawn for a question
MaxStrLen == 3
\* number of store calls of the sequential caller
MaxCalls == 2
\* longest credential drawn
MaxCredLen == 1
\* number of browser sessions
NumSessions == 2
\* number of UI events handled
MaxEvents == 5
\* clock value after which a caller makes no further store call
MaxTicks == 5
\* longest text tokenizar is called with
MaxTextLen == 5
\* number of distinct words the entries are written with
MaxWords == 17

VARIABLES
    LOCK_AVAILABLE,   \* app.py:124-128, outcome of the filelock import
    file,             \* content of DATA_PATH (data_words.json)
    file0,            \* content of DATA_PATH when the callers started
    clock,            \* value the next time.time() returns
    lock,             \* holder of data_words.json.lock, 0 when free
    pc,               \* pc[c]: position of caller c in its store operation
    op,               \* op[c]: the store operation caller c runs
    data,             \* data[c]: the local dict `data` of caller c's inner()
    ret,              \* ret[c]: what the operation returned to caller c
    overlap,          \* whether a caller started while another was in its operation
    prev,             \* sequential caller: DATA_PATH before the last call
    call,             \* sequential caller: the last call
    result,           \* sequential caller: what the last call returned
    base,             \* sequential caller: DATA_PATH before the current run of appends
    run,              \* sequential caller: texts appended since base
    ncalls,           \* sequential caller: number of calls made
    ADMIN_USER,       \* app.py:276
    ADMIN_PASS,       \* app.py:277
    user,             \* check_admin argument
    pwd,              \* check_admin argument
    authResult,       \* what check_admin(user, pwd) did
    is_admin,         \* is_admin[s]: st.session_state.is_admin of session s
    input_answer,     \* input_answer[s]: st.session_state.input_answer of session s
    view,             \* view[s]: what the last script run of session s rendered
    uiEvent,          \* the last UI event handled, and what its handler did
    wasAdmin,         \* is_admin before the last UI event
    nevents,          \* number of UI events handled
    texto,            \* tokenizar argument
    tokens,           \* what tokenizar(texto) returned
    respostas_all,    \* the entry texts loaded for a render
    tokens_all,       \* compute_tokens_from_respostas(respostas_all)
    cont,             \* Counter(tokens_all)
    top               \* cont.most_common(15) of the admin summary

storeVars == <<LOCK_AVAILABLE, file, file0, clock>>
concVars  == <<lock, pc, op, data, ret, overlap>>
seqVars   == <<prev, call, result, base, run, ncalls>>
authVars  == <<ADMIN_USER, ADMIN_PASS, user, pwd, authResult>>
uiVars    == <<is_admin, input_answer, view, uiEvent, wasAdmin, nevents>>
tokVars   == <<texto, tokens, respostas_all, tokens_all, cont, top>>
vars      == <<storeVars, concVars, seqVars, authVars, uiVars, tokVars>>

(***************************************************************************)
(* Python and JSON values.                                                 *)
(***************************************************************************)
Absent    == [t |-> "absent"]              \* a key the dict does not have
PyNone    == [t |-> "none"]                \* None, JSON null
PyStr(s)  == [t |-> "str",  v |-> s]
PyNum(n)  == [t |-> "num",  v |-> n]
PyBool(b) == [t |-> "bool", v |-> b]
PyList(l) == [t |-> "list", v |-> l]
PyDict(d) == [t |-> "dict", v |-> d]

\* an exception propagating to the caller
Raised(e) == [t |-> "raise", v |-> e]

\* Python truth value, as `x or y` and bool(x) test it
Truthy(x) ==
    CASE x.t = "none"   -> FALSE
      [] x.t = "absent" -> FALSE
      [] x.t = "str"    -> x.v # <<>>
      [] x.t = "num"    -> x.v # 0
      [] x.t = "bool"   -> x.v
      [] x.t = "list"   -> x.v # <<>>
      [] OTHER          -> TRUE

\* x or y
PyOr(x, y) == IF Truthy(x) THEN x ELSE y

IsSpace(ch) == ch = " "

RECURSIVE LStrip(_)
LStrip(s) ==
    IF s # <<>> /\ IsSpace(Head(s)) THEN LStrip(Tail(s)) ELSE s

RECURSIVE RStrip(_)
RStrip(s) ==
    IF s # <<>> /\ IsSpace(s[Len(s)]) THEN RStrip(SubSeq(s, 1, Len(s) - 1)) ELSE s

\* str.strip()
Strip(s) == RStrip(LStrip(s))

\* x.strip() of a Python value: only a str has the method
PyStrip(x) ==
    IF x.t = "str" THEN PyStr(Strip(x.v)) ELSE Raised("AttributeError")

\* strings over an alphabet, up to a length
RECURSIVE StringsUpTo(_, _)
StringsUpTo(alphabet, n) ==
    IF n = 0 THEN {<<>>}
    ELSE LET shorter == StringsUpTo(alphabet, n - 1)
         IN  shorter \cup {Append(s, ch) : s \in shorter, ch \in alphabet}

(***************************************************************************)
(* Paths / Defaults.                                                       *)
(***************************************************************************)
DEFAULT_QUESTION == <<"d", " ", "q">>

\* the dict a parsed document is, with the keys the code reads
Doc(q, es, show, created, updated) ==
    [question |-> q, entries |-> es, public_show_cloud |-> show,
     created_at |-> created, updated_at |-> updated]

Entry(text, ts) == [text |-> text, ts |-> ts]

\* contents of DATA_PATH
Missing  == [t |-> "missing"]              \* DATA_PATH does not exist
Garbage  == [t |-> "garbage"]              \* not parseable: truncated, partial
Json(x)  == [t |-> "json", v |-> x]        \* the JSON text of value x

(***************************************************************************)
(* Persistence.                                                            *)
(***************************************************************************)
_empty_data(now) ==
    Doc(PyStr(DEFAULT_QUESTION), PyList(<<>>), PyBool(FALSE), PyNum(now), PyNum(now))

\* dict.setdefault(k, v)
SetDefault(d, k, v) == IF d[k].t = "absent" THEN [d EXCEPT ![k] = v] ELSE d

_read_data(f, now) ==
    IF f.t = "missing" THEN _empty_data(now)
    ELSE IF f.t = "garbage" THEN _empty_data(now)            \* json.load raises
    ELSE IF f.v.t # "dict" THEN _empty_data(now)             \* no setdefault: AttributeError
    ELSE SetDefault(
           SetDefault(
             SetDefault(f.v.v, "question", PyStr(DEFAULT_QUESTION)),
             "entries", PyList(<<>>)),
           "public_show_cloud", PyBool(FALSE))

\* _write_data up to and including open(DATA_PATH, "w"), which truncates
WriteStamp(d, now) == [d EXCEPT !.updated_at = PyNum(now)]

\* json.dump(data, f) and the close of f
WriteDump(d) == Json(PyDict(d))

\* dict.get(k, default)
Get(d, k, default) == IF d[k].t = "absent" THEN default ELSE d[k]

\* load_question without the final `or DEFAULT_QUESTION`
QuestionOf_NoFallback(d) ==
    LET q == Get(d, "question", PyStr(DEFAULT_QUESTION))
    IN  PyStrip(PyOr(q, PyStr(DEFAULT_QUESTION)))

\* load_question applied to what load_data returned
QuestionOf(d) ==
    LET q == Get(d, "question", PyStr(DEFAULT_QUESTION))
        s == PyStrip(PyOr(q, PyStr(DEFAULT_QUESTION)))
    IN  IF s.t = "raise" THEN s ELSE PyOr(s, PyStr(DEFAULT_QUESTION))

\* load_entries applied to what load_data returned
EntriesOf(d) == PyOr(Get(d, "entries", PyList(<<>>)), PyList(<<>>))

\* load_public_show_cloud applied to what load_data returned
ShowOf(d) == PyBool(Truthy(Get(d, "public_show_cloud", PyBool(FALSE))))

(***************************************************************************)
(* The bodies of the inner() functions between _read_data and _write_data: *)
(* the new dict, or the exception raised.                                  *)
(***************************************************************************)
\* append_entry inserting the new entry at the front
AppendInner_Prepend(d, text, now) ==
    IF d.entries.t = "list"
    THEN PyDict([d EXCEPT !.entries = PyList(<<Entry(text, now)>> \o d.entries.v)])
    ELSE Raised("AttributeError")

AppendInner(d, text, now) ==
    IF d.entries.t = "list"
    THEN PyDict([d EXCEPT !.entries = PyList(Append(d.entries.v, Entry(text, now)))])
    ELSE Raised("AttributeError")

\* clear_all_entries writing a fresh default document
ClearInner_ResetsAll(d) == PyDict(_empty_data(0))

ClearInner(d) == PyDict([d EXCEPT !.entries = PyList(<<>>)])

\* set_question computing the new question without storing it in data
SetQuestionInner_KeepsOld(d, new_q) ==
    LET s == PyStrip(PyOr(new_q, PyStr(DEFAULT_QUESTION)))
    IN  IF s.t = "raise" THEN s ELSE PyDict(d)

SetQuestionInner(d, new_q) ==
    LET s == PyStrip(PyOr(new_q, PyStr(DEFAULT_QUESTION)))
    IN  IF s.t = "raise" THEN s
        ELSE PyDict([d EXCEPT !.question = PyOr(s, PyStr(DEFAULT_QUESTION))])

\* set_public_show_cloud also emptying the entries
SetShowInner_DropsEntries(d, show) ==
    PyDict([d EXCEPT !.public_show_cloud = PyBool(Truthy(show)), !.entries = PyList(<<>>)])

SetShowInner(d, show) == PyDict([d EXCEPT !.public_show_cloud = PyBool(Truthy(show))])

\* a store operation: its name and its argument
Op(name, arg) == [name |-> name, arg |-> arg]

Mutators == {"append_entry", "clear_all_entries", "set_question", "set_public_show_cloud"}

\* the inner() of a mutating operation o on dict d
Inner(o, d, now) ==
    CASE o.name = "append_entry"          -> AppendInner(d, o.arg, now)
      [] o.name = "clear_all_entries"     -> ClearInner(d)
      [] o.name = "set_question"          -> SetQuestionInner(d, o.arg)
      [] o.name = "set_public_show_cloud" -> SetShowInner(d, o.arg)


(***************************************************************************)
(* Concurrent callers of the store.  Each caller is one thread running one *)
(* store operation; its steps are the points where another thread can run: *)
(* entering with_lock, _read_data, open(DATA_PATH, "w") of _write_data,    *)
(* the end of json.dump, and leaving with_lock.                            *)
(***************************************************************************)
Callers == 1..NumCallers

NoOp == Op("none", PyNone)

\* texts the callers append
Texts == {<<"a">>, <<"b">>}

\* the operations a concurrent caller may run
ConcOps ==
    {Op("append_entry", t) : t \in Texts}
    \cup {Op("clear_all_entries", PyNone)}
    \cup {Op("set_question", PyStr(<<"a">>))}
    \cup {Op("set_public_show_cloud", PyBool(TRUE))}
    \cup {Op("load_data", PyNone)}

\* a well-formed persisted document holding the entries es
GoodDoc(es) ==
    Json(PyDict(Doc(PyStr(<<"a">>), PyList(es), PyBool(FALSE), PyNum(0), PyNum(0))))

\* a persisted document whose entries are null
NullEntriesDoc ==
    Json(PyDict(Doc(PyStr(<<"a">>), PyNone, PyBool(FALSE), PyNum(0), PyNum(0))))

ConcInitFiles ==
    {Missing, Garbage, GoodDoc(<<>>), GoodDoc(<<Entry(<<"a">>, 0)>>), NullEntriesDoc}

\* browser sessions of the page
Sessions == 1..NumSessions

\* an event of the page: a button with what was typed in its fields
Ev(kind, a, b) == [kind |-> kind, a |-> a, b |-> b]

NoEvent == Ev("none", PyNone, PyNone)

\* what a script run rendered: the sidebar branch, whether the body of the page
\* was reached, whether col2 took the admin branch, the public_show loaded and
\* whether the cloud was computed
View(sidebar, body, admin, show, cloud) ==
    [sidebar |-> sidebar, body |-> body, admin |-> admin, show |-> show, cloud |-> cloud]

NoView == View("none", FALSE, FALSE, FALSE, FALSE)

\* the handler's record of an event: the check_admin result, the store
\* operations run, is_admin when the script reached them, whether DATA_PATH changed
Handled(s, ev, auth, ops, gate, changed) ==
    [s |-> s, ev |-> ev, auth |-> auth, ops |-> ops, gate |-> gate, changed |-> changed]

UiIdle ==
    /\ is_admin = [s \in Sessions |-> FALSE]
    /\ input_answer = [s \in Sessions |-> <<>>]
    /\ view = [s \in Sessions |-> NoView]
    /\ uiEvent = Handled(0, NoEvent, Absent, <<>>, FALSE, FALSE)
    /\ wasAdmin = [s \in Sessions |-> FALSE]
    /\ nevents = 0

TokIdle ==
    /\ texto = PyNone /\ tokens = Absent
    /\ respostas_all = <<>> /\ tokens_all = Absent /\ cont = Absent /\ top = Absent

SeqIdle ==
    /\ prev = Missing /\ call = NoOp /\ result = PyNone
    /\ base = Missing /\ run = <<>> /\ ncalls = 0

AuthIdle ==
    /\ ADMIN_USER = <<>> /\ ADMIN_PASS = <<>>
    /\ user = PyNone /\ pwd = PyNone /\ authResult = Absent

Init ==
    /\ LOCK_AVAILABLE \in BOOLEAN
    /\ file \in ConcInitFiles
    /\ file0 = file
    /\ clock = 1
    /\ lock = 0
    /\ pc = [c \in Callers |-> "idle"]
    /\ op = [c \in Callers |-> NoOp]
    /\ data = [c \in Callers |-> Absent]
    /\ ret = [c \in Callers |-> Absent]
    /\ overlap = FALSE
    /\ SeqIdle
    /\ AuthIdle
    /\ UiIdle
    /\ TokIdle

\* the caller calls a store operation, which calls with_lock(inner)
Start(c, o) ==
    /\ pc[c] = "idle"
    /\ op' = [op EXCEPT ![c] = o]
    /\ pc' = [pc EXCEPT ![c] = "enter"]
    /\ overlap' = (overlap \/ \E d \in Callers : d # c /\ pc[d] \notin {"idle", "done"})
    /\ UNCHANGED <<storeVars, lock, data, ret, seqVars, authVars, uiVars, tokVars>>

\* with_lock taking the lock without waiting for its holder
Enter_NoWait(c) ==
    /\ pc[c] = "enter"
    /\ lock' = IF LOCK_AVAILABLE THEN c ELSE lock
    /\ pc' = [pc EXCEPT ![c] = "read"]
    /\ UNCHANGED <<storeVars, op, data, ret, overlap, seqVars, authVars, uiVars, tokVars>>

\* with_lock: fn() at once without the lock, else `with lock:` waits for it
Enter(c) ==
    /\ pc[c] = "enter"
    /\ IF LOCK_AVAILABLE
       THEN lock = 0 /\ lock' = c
       ELSE lock' = lock
    /\ pc' = [pc EXCEPT ![c] = "read"]
    /\ UNCHANGED <<storeVars, op, data, ret, overlap, seqVars, authVars, uiVars, tokVars>>

\* _read_data under the lock, the rest of inner() after releasing it
Read_ReleasesLock(c) ==
    /\ pc[c] = "read"
    /\ data' = [data EXCEPT ![c] = _read_data(file, clock)]
    /\ clock' = clock + 1
    /\ lock' = 0
    /\ IF op[c].name = "load_data"
       THEN /\ ret' = [ret EXCEPT ![c] = PyDict(data'[c])]
            /\ pc' = [pc EXCEPT ![c] = "exit"]
       ELSE /\ ret' = ret
            /\ pc' = [pc EXCEPT ![c] = "modify"]
    /\ UNCHANGED <<LOCK_AVAILABLE, file, file0, op, overlap, seqVars, authVars, uiVars, tokVars>>

\* data = _read_data(); load_data returns it
Read(c) ==
    /\ pc[c] = "read"
    /\ data' = [data EXCEPT ![c] = _read_data(file, clock)]
    /\ clock' = clock + 1
    /\ IF op[c].name = "load_data"
       THEN /\ ret' = [ret EXCEPT ![c] = PyDict(data'[c])]
            /\ pc' = [pc EXCEPT ![c] = "exit"]
       ELSE /\ ret' = ret
            /\ pc' = [pc EXCEPT ![c] = "modify"]
    /\ UNCHANGED <<LOCK_AVAILABLE, file, file0, lock, op, overlap, seqVars, authVars, uiVars, tokVars>>

\* inner() leaving the lock once open(DATA_PATH, "w") has emptied the file
Modify_ReleasesLock(c) ==
    /\ pc[c] = "modify"
    /\ LET r == Inner(op[c], data[c], clock)
       IN  IF r.t = "raise"
           THEN /\ ret' = [ret EXCEPT ![c] = r]
                /\ pc' = [pc EXCEPT ![c] = "exit"]
                /\ UNCHANGED <<file, data>>
           ELSE /\ data' = [data EXCEPT ![c] = WriteStamp(r.v, clock)]
                /\ file' = Garbage
                /\ pc' = [pc EXCEPT ![c] = "dump"]
                /\ ret' = ret
    /\ clock' = clock + 1
    /\ lock' = 0
    /\ UNCHANGED <<LOCK_AVAILABLE, file0, op, overlap, seqVars, authVars, uiVars, tokVars>>

\* the change to data, then _write_data as far as open(DATA_PATH, "w"),
\* which empties the file; an exception leaves the with block
Modify(c) ==
    /\ pc[c] = "modify"
    /\ LET r == Inner(op[c], data[c], clock)
       IN  IF r.t = "raise"
           THEN /\ ret' = [ret EXCEPT ![c] = r]
                /\ pc' = [pc EXCEPT ![c] = "exit"]
                /\ UNCHANGED <<file, data>>
           ELSE /\ data' = [data EXCEPT ![c] = WriteStamp(r.v, clock)]
                /\ file' = Garbage
                /\ pc' = [pc EXCEPT ![c] = "dump"]
                /\ ret' = ret
    /\ clock' = clock + 1
    /\ UNCHANGED <<LOCK_AVAILABLE, file0, lock, op, overlap, seqVars, authVars, uiVars, tokVars>>

\* json.dump(data, f) completes and f is closed
Dump(c) ==
    /\ pc[c] = "dump"
    /\ file' = WriteDump(data[c])
    /\ ret' = [ret EXCEPT ![c] = PyNone]
    /\ pc' = [pc EXCEPT ![c] = "exit"]
    /\ UNCHANGED <<LOCK_AVAILABLE, file0, clock, lock, op, data, overlap, seqVars, authVars, uiVars, tokVars>>

\* a with block that keeps the lock when fn() raised
Exit_KeepsLockOnRaise(c) ==
    /\ pc[c] = "exit"
    /\ lock' = IF LOCK_AVAILABLE /\ ret[c].t # "raise" THEN 0 ELSE lock
    /\ pc' = [pc EXCEPT ![c] = "done"]
    /\ UNCHANGED <<storeVars, op, data, ret, overlap, seqVars, authVars, uiVars, tokVars>>

\* the with block is left (the lock released) and with_lock returns
Exit(c) ==
    /\ pc[c] = "exit"
    /\ lock' = IF LOCK_AVAILABLE THEN 0 ELSE lock
    /\ pc' = [pc EXCEPT ![c] = "done"]
    /\ UNCHANGED <<storeVars, op, data, ret, overlap, seqVars, authVars, uiVars, tokVars>>

Next ==
    \E c \in Callers :
        \/ \E o \in ConcOps : Start(c, o)
        \/ Enter(c)
        \/ Read(c)
        \/ Modify(c)
        \/ Dump(c)
        \/ Exit(c)

Spec == Init /\ [][Next]_vars

(***************************************************************************)
(* One caller, one store call after another (no other thread): each call   *)
(* is the whole function, with_lock(inner) included.  With a single caller *)
(* the lock is free whenever with_lock asks for it, so both branches of    *)
(* with_lock come to fn().                                                 *)
(***************************************************************************)
with_lock(fnResult) == IF ~LOCK_AVAILABLE THEN fnResult ELSE fnResult

Outcome(f, r) == [file |-> f, ret |-> r]

load_data(f, now) == Outcome(f, with_lock(PyDict(_read_data(f, now))))

load_question(f, now) == Outcome(f, QuestionOf(load_data(f, now).ret.v))

load_entries(f, now) == Outcome(f, EntriesOf(load_data(f, now).ret.v))

load_public_show_cloud(f, now) == Outcome(f, ShowOf(load_data(f, now).ret.v))

\* inner() of a mutating operation: _read_data, the change, _write_data
Mutate(o, f, now) ==
    LET r == Inner(o, _read_data(f, now), now)
    IN  IF r.t = "raise"
        THEN Outcome(f, r)
        ELSE Outcome(WriteDump(WriteStamp(r.v, now)), PyNone)

append_entry(text, f, now) ==
    with_lock(Mutate(Op("append_entry", text), f, now))

clear_all_entries(f, now) ==
    with_lock(Mutate(Op("clear_all_entries", PyNone), f, now))

set_question(new_q, f, now) ==
    with_lock(Mutate(Op("set_question", new_q), f, now))

set_public_show_cloud(show, f, now) ==
    with_lock(Mutate(Op("set_public_show_cloud", show), f, now))

\* the values persisted fields are drawn from
InitQuestions ==
    {Absent, PyNone, PyStr(<<>>), PyStr(<<" ">>), PyStr(<<"a">>),
     PyStr(<<" ", "a">>), PyNum(7), PyNum(0)}

InitEntries ==
    {Absent, PyNone, PyList(<<>>), PyList(<<Entry(<<"a">>, 0)>>), PyStr(<<"a">>)}

InitShows == {Absent, PyBool(TRUE)}

SeqInitFiles ==
    {Missing, Garbage, Json(PyNone), Json(PyList(<<>>)),
     Json(PyDict(Doc(Absent, Absent, Absent, Absent, Absent)))}
    \cup {Json(PyDict(Doc(q, es, sh, PyNum(0), PyNum(0)))) :
            q \in InitQuestions, es \in InitEntries, sh \in InitShows}

\* the arguments set_question is called with
QuestionArgs == {PyNone} \cup {PyStr(s) : s \in StringsUpTo({" ", "a"}, MaxStrLen)}

ConcIdle ==
    /\ lock = 0
    /\ pc = [c \in Callers |-> "idle"]
    /\ op = [c \in Callers |-> NoOp]
    /\ data = [c \in Callers |-> Absent]
    /\ ret = [c \in Callers |-> Absent]
    /\ overlap = FALSE

InitSeq ==
    /\ LOCK_AVAILABLE \in BOOLEAN
    /\ file \in SeqInitFiles
    /\ file0 = file
    /\ clock = 1
    /\ prev = file
    /\ call = NoOp
    /\ result = PyNone
    /\ base = file
    /\ run = <<>>
    /\ ncalls = 0
    /\ ConcIdle
    /\ AuthIdle
    /\ UiIdle
    /\ TokIdle

\* the call o had outcome out
Called(o, out) ==
    /\ ncalls < MaxCalls
    /\ ncalls' = ncalls + 1
    /\ prev' = file
    /\ call' = o
    /\ file' = out.file
    /\ result' = out.ret
    /\ clock' = clock + 1
    /\ UNCHANGED <<LOCK_AVAILABLE, file0, concVars, authVars, uiVars, tokVars>>

LoadData ==
    /\ Called(Op("load_data", PyNone), load_data(file, clock))
    /\ UNCHANGED <<base, run>>

LoadQuestion ==
    /\ Called(Op("load_question", PyNone), load_question(file, clock))
    /\ UNCHANGED <<base, run>>

LoadEntries ==
    /\ Called(Op("load_entries", PyNone), load_entries(file, clock))
    /\ UNCHANGED <<base, run>>

LoadPublicShowCloud ==
    /\ Called(Op("load_public_show_cloud", PyNone), load_public_show_cloud(file, clock))
    /\ UNCHANGED <<base, run>>

\* a successful append extends the run of appends; a failed one ends it
AppendEntry(text) ==
    /\ Called(Op("append_entry", text), append_entry(text, file, clock))
    /\ IF result' = PyNone
       THEN /\ run' = Append(run, text)
            /\ base' = IF run = <<>> THEN file ELSE base
       ELSE /\ run' = <<>>
            /\ base' = file'

ClearAllEntries ==
    /\ Called(Op("clear_all_entries", PyNone), clear_all_entries(file, clock))
    /\ run' = <<>>
    /\ base' = file'

SetQuestion(new_q) ==
    /\ Called(Op("set_question", new_q), set_question(new_q, file, clock))
    /\ run' = <<>>
    /\ base' = file'

SetPublicShowCloud(show) ==
    /\ Called(Op("set_public_show_cloud", show), set_public_show_cloud(show, file, clock))
    /\ run' = <<>>
    /\ base' = file'

NextSeq ==
    \/ LoadData
    \/ LoadQuestion
    \/ LoadEntries
    \/ LoadPublicShowCloud
    \/ \E text \in Texts : AppendEntry(text)
    \/ ClearAllEntries
    \/ \E new_q \in QuestionArgs : SetQuestion(new_q)
    \/ \E show \in {PyBool(TRUE), PyBool(FALSE)} : SetPublicShowCloud(show)

SpecSeq == InitSeq /\ [][NextSeq]_vars

(***************************************************************************)
(* Admin auth.                                                             *)
(***************************************************************************)
\* the characters of a credential; "eacute" is U+00E9, outside ASCII
AsciiChars == {"a", "b"}
CredChars  == AsciiChars \cup {"eacute"}

IsAscii(s) == \A i \in 1..Len(s) : s[i] \in AsciiChars

\* hmac.compare_digest(a, b) of two str: TypeError unless both are ASCII
compare_digest(a, b) ==
    IF IsAscii(a.v) /\ IsAscii(b.v) THEN PyBool(a.v = b.v) ELSE Raised("TypeError")

\* check_admin(u, p); `and` evaluates its right side only when the left is true
check_admin(u, p) ==
    LET left == compare_digest(PyOr(u, PyStr(<<>>)), PyOr(PyStr(ADMIN_USER), PyStr(<<>>)))
    IN  IF left.t = "raise" THEN left
        ELSE IF ~left.v THEN left
        ELSE compare_digest(PyOr(p, PyStr(<<>>)), PyOr(PyStr(ADMIN_PASS), PyStr(<<>>)))

CredStrings == StringsUpTo(CredChars, MaxCredLen)

\* what a caller may pass as user or pwd
CredArgs == {PyNone} \cup {PyStr(s) : s \in CredStrings}

InitAuth ==
    /\ ADMIN_USER \in CredStrings
    /\ ADMIN_PASS \in CredStrings
    /\ user = PyNone
    /\ pwd = PyNone
    /\ authResult = Absent
    /\ LOCK_AVAILABLE = TRUE
    /\ file = Missing
    /\ file0 = Missing
    /\ clock = 1
    /\ ConcIdle
    /\ SeqIdle
    /\ UiIdle
    /\ TokIdle

CheckAdmin(u, p) ==
    /\ user' = u
    /\ pwd' = p
    /\ authResult' = check_admin(u, p)
    /\ UNCHANGED <<ADMIN_USER, ADMIN_PASS, storeVars, concVars, seqVars, uiVars, tokVars>>

NextAuth == \E u \in CredArgs, p \in CredArgs : CheckAdmin(u, p)

SpecAuth == InitAuth /\ [][NextAuth]_vars

(***************************************************************************)
(* Properties of the concurrent callers (Spec).                            *)
(***************************************************************************)
\* the callers that have called their operation
Issued == {c \in Callers : pc[c] # "idle"}

\* every operation called has returned
AllReturned == \A c \in Issued : pc[c] = "done"

\* the entries sequence a read of DATA_PATH content f yields
PersistedEntries(f) == load_entries(f, 0).ret.v

\* exactly c1 and c2 have called, append_entry both, and both returned normally
TwoAppendsDone(c1, c2) ==
    /\ c1 # c2
    /\ Issued = {c1, c2}
    /\ AllReturned
    /\ op[c1].name = "append_entry" /\ ret[c1] = PyNone
    /\ op[c2].name = "append_entry" /\ ret[c2] = PyNone

\* C1: with the file lock available, when two callers have each run one
\* append_entry to completion, in any interleaving of their steps, the persisted
\* entries are the initial entries followed by the two new entries in one of the
\* two orders: initial length plus 2, neither append lost.
C1_BothAppendsSurvive ==
    \A c1, c2 \in Callers :
        (LOCK_AVAILABLE /\ TwoAppendsDone(c1, c2)) =>
            LET init == PersistedEntries(file0)
                fin  == PersistedEntries(file)
                n    == Len(init)
            IN  /\ Len(fin) = n + 2
                /\ SubSeq(fin, 1, n) = init
                /\ <<fin[n + 1].text, fin[n + 2].text>>
                       \in {<<op[c1].arg, op[c2].arg>>, <<op[c2].arg, op[c1].arg>>}

\* C1 witness: two appends of different texts that overlapped in time have both
\* returned, on a document that held an entry before.
C1_Witness ==
    \E c1, c2 \in Callers :
        /\ LOCK_AVAILABLE /\ TwoAppendsDone(c1, c2) /\ overlap
        /\ op[c1].arg # op[c2].arg
        /\ Len(PersistedEntries(file0)) = 1
        /\ Len(PersistedEntries(file)) = 3

\* caller c is between the load step and the end of the store step of a
\* mutating operation
InCycle(c) == op[c].name \in Mutators /\ pc[c] \in {"modify", "dump"}

\* C2: in every reachable state, with or without the filelock package, at most
\* one mutating operation is between its _read_data and the end of its
\* _write_data.
C2_AtMostOneInCycle ==
    \A c1, c2 \in Callers : (InCycle(c1) /\ InCycle(c2)) => c1 = c2

\* exactly c1 and c2 have called, c1 clear_all_entries and c2 append_entry,
\* and both returned
ClearAndAppendDone(c1, c2) ==
    /\ c1 # c2
    /\ Issued = {c1, c2}
    /\ AllReturned
    /\ op[c1].name = "clear_all_entries"
    /\ op[c2].name = "append_entry"

\* C3: with the file lock available, a clear_all_entries and an append_entry of
\* text e run by two callers end, in any interleaving, with the persisted entries
\* either empty or the single entry e: never the old entries followed by e.
C3_ClearOrAppendLast ==
    \A c1, c2 \in Callers :
        (LOCK_AVAILABLE /\ ClearAndAppendDone(c1, c2)) =>
            LET fin == PersistedEntries(file)
            IN  \/ fin = <<>>
                \/ Len(fin) = 1 /\ fin[1].text = op[c2].arg

\* C3 witness: the clear and the append overlapped on a document holding an
\* entry, and the append came last.
C3_Witness ==
    \E c1, c2 \in Callers :
        /\ LOCK_AVAILABLE /\ ClearAndAppendDone(c1, c2) /\ overlap
        /\ Len(PersistedEntries(file0)) = 1
        /\ Len(PersistedEntries(file)) = 1
        /\ PersistedEntries(file)[1].text = op[c2].arg
        /\ PersistedEntries(file)[1] # PersistedEntries(file0)[1]

(***************************************************************************)
(* Properties of the sequential caller (SpecSeq).                          *)
(***************************************************************************)
\* C4: after N successful append_entry calls in a row by the only caller,
\* load_entries() returns the entries it returned before the first of them
\* followed by the N new texts in the order of the calls.
C4_AppendsInSubmissionOrder ==
    run # <<>> =>
        LET init == load_entries(base, clock).ret.v
            cur  == load_entries(file, clock).ret
            n    == Len(init)
        IN  /\ cur.t = "list"
            /\ Len(cur.v) = n + Len(run)
            /\ SubSeq(cur.v, 1, n) = init
            /\ \A i \in 1..Len(run) : cur.v[n + i].text = run[i]

\* C4 witness: two appends of different texts in a row on a document that
\* held an entry.
C4_Witness ==
    /\ Len(run) = 2
    /\ run[1] # run[2]
    /\ Len(load_entries(base, clock).ret.v) = 1
    /\ Len(load_entries(file, clock).ret.v) = 3

\* C5: right after clear_all_entries(), for whatever was persisted before,
\* load_entries() returns the empty sequence, and the question read
\* (load_question(), and the question field load_data() returns) is what the
\* same read gave on the content persisted just before the clear.
C5_ClearKeepsQuestion ==
    call.name = "clear_all_entries" =>
        /\ result = PyNone
        /\ load_entries(file, clock).ret = PyList(<<>>)
        /\ load_question(file, clock).ret = load_question(prev, clock).ret
        /\ load_data(file, clock).ret.v.question = load_data(prev, clock).ret.v.question

\* C5 witness: a clear of a document holding an entry and a question other
\* than the default one.
C5_Witness ==
    /\ call.name = "clear_all_entries"
    /\ prev.t = "json" /\ prev.v.t = "dict"
    /\ prev.v.v.entries = PyList(<<Entry(<<"a">>, 0)>>)
    /\ load_question(prev, clock).ret = PyStr(<<"a">>)
    /\ load_question(file, clock).ret = PyStr(<<"a">>)

\* None, the empty string or only whitespace
Blank(x) == x.t = "none" \/ \A i \in 1..Len(x.v) : x.v[i] = " "

\* t is s without the whitespace at its two ends
IsTrimOf(t, s) ==
    /\ t # <<>>
    /\ t[1] # " "
    /\ t[Len(t)] # " "
    /\ \E i \in 0..Len(s) :
          /\ i + Len(t) <= Len(s)
          /\ SubSeq(s, i + 1, i + Len(t)) = t
          /\ \A k \in 1..Len(s) : (k <= i \/ k > i + Len(t)) => s[k] = " "

\* C6: right after set_question(X), load_question() returns X without the
\* whitespace at its ends when X is not blank, and DEFAULT_QUESTION when X is
\* None, empty or whitespace only; never the empty string.
C6_SetQuestionRoundTrip ==
    call.name = "set_question" =>
        LET got == load_question(file, clock).ret
        IN  /\ result = PyNone
            /\ got.t = "str"
            /\ got.v # <<>>
            /\ IF Blank(call.arg)
               THEN got.v = DEFAULT_QUESTION
               ELSE IsTrimOf(got.v, call.arg.v)

\* C6 witness: a question with whitespace at one end and inside was set and
\* reads back trimmed; the document before held another question.
C6_Witness ==
    /\ call = Op("set_question", PyStr(<<" ", "a", " ">>))
    /\ load_question(file, clock).ret = PyStr(<<"a">>)
    /\ load_question(prev, clock).ret = PyStr(DEFAULT_QUESTION)

\* the persisted question: Absent when the content is no dict or has no such key
RawQuestion(f) ==
    IF f.t = "json" /\ f.v.t = "dict" THEN f.v.v.question ELSE Absent

\* C7 as claimed: the question field of every Document load_data returns is a
\* non-empty string.
C7_ReadHasNonEmptyQuestion ==
    call.name = "load_data" =>
        /\ result.v.question.t = "str"
        /\ result.v.question.v # <<>>

\* C7 amended: load_question() never returns an empty or blank string: for a
\* persisted question that is missing, null or a string it returns a non-empty
\* trimmed string (the default for missing, null, empty and blank), and it raises
\* only for a persisted question that is a true non-string value.  The Document
\* load_data returns has the default question only when the content is missing,
\* unreadable, no dict or has no question key; otherwise it carries the
\* persisted value as it is, null and the empty string included.
C7_LoadQuestionNonEmpty ==
    /\ call.name = "load_question" =>
          /\ \/ /\ result.t = "str"
                /\ result.v # <<>>
                /\ result.v[1] # " "
                /\ result.v[Len(result.v)] # " "
             \/ /\ result = Raised("AttributeError")
                /\ RawQuestion(prev).t \notin {"absent", "none", "str"}
                /\ Truthy(RawQuestion(prev))
          /\ RawQuestion(prev).t \in {"absent", "none"} => result = PyStr(DEFAULT_QUESTION)
          /\ (RawQuestion(prev).t = "str" /\ Blank(RawQuestion(prev)))
                => result = PyStr(DEFAULT_QUESTION)
          /\ (RawQuestion(prev).t = "str" /\ ~Blank(RawQuestion(prev)))
                => IsTrimOf(result.v, RawQuestion(prev).v)
    /\ call.name = "load_data" =>
          result.v.question =
              IF RawQuestion(prev).t = "absent"
              THEN PyStr(DEFAULT_QUESTION)
              ELSE RawQuestion(prev)

\* C7 witness: load_question() on a document whose persisted question is the
\* empty string returned the default.
C7_Witness ==
    /\ call.name = "load_question"
    /\ RawQuestion(prev) = PyStr(<<>>)
    /\ result = PyStr(DEFAULT_QUESTION)

\* C8: whatever is persisted, none of load_entries, append_entry,
\* clear_all_entries, set_question and set_public_show_cloud raises to its
\* caller.
C8_NoStoreCallFails ==
    call.name \in {"load_entries", "append_entry", "clear_all_entries",
                   "set_question", "set_public_show_cloud"}
        => result.t # "raise"

(***************************************************************************)
(* Properties of check_admin (SpecAuth).                                   *)
(***************************************************************************)
\* None as the empty string
OrEmpty(x) == IF x.t = "none" THEN <<>> ELSE x.v

\* C9: with ADMIN_PASS empty, check_admin(user, pwd) returns False for every
\* pair.
C9_EmptyPassAlwaysFalse ==
    (authResult # Absent /\ ADMIN_PASS = <<>>) => authResult = PyBool(FALSE)

\* C10: for every configured pair and every submitted pair (None as empty),
\* check_admin returns True if user = ADMIN_USER and pwd = ADMIN_PASS, and
\* returns False otherwise.
C10_TrueIffExactMatch ==
    authResult # Absent =>
        authResult = PyBool(OrEmpty(user) = ADMIN_USER /\ OrEmpty(pwd) = ADMIN_PASS)


(***************************************************************************)
(* The page: session state, the answer callback, the admin sidebar and the *)
(* two columns.  Every event of a session runs its callback and then the   *)
(* script from top to bottom; st.rerun() runs the script once more.        *)
(***************************************************************************)
\* raw[:200] of on_answer_change
AnswerCap == 200

\* n copies of the character ch
Rep(ch, n) == [i \in 1..n |-> ch]

\* s[:n]
Take(s, n) == SubSeq(s, 1, IF Len(s) < n THEN Len(s) ELSE n)

\* what the callback did: the store, the widget value, the store operations run
CallbackDone(f, inp, ops) == [file |-> f, input_answer |-> inp, ops |-> ops]

\* on_answer_change persisting the whole stripped answer
on_answer_change_NoCap(raw, f, now) ==
    LET stripped == Strip(PyOr(PyStr(raw), PyStr(<<>>)).v)
    IN  IF stripped = <<>>
        THEN CallbackDone(f, <<>>, <<>>)
        ELSE CallbackDone(append_entry(stripped, f, now).file, <<>>, <<"append_entry">>)

\* on_answer_change with raw typed into the input_answer widget
on_answer_change(raw, f, now) ==
    LET stripped == Strip(PyOr(PyStr(raw), PyStr(<<>>)).v)
    IN  IF stripped = <<>>
        THEN CallbackDone(f, <<>>, <<>>)
        ELSE CallbackDone(append_entry(Take(stripped, AnswerCap), f, now).file,
                          <<>>, <<"append_entry">>)

\* what the sidebar block did: is_admin after it, the branch rendered, how the
\* script goes on (continue, rerun, exception) and what check_admin returned
SidebarDone(adm, sidebar, status, auth) ==
    [is_admin |-> adm, sidebar |-> sidebar, status |-> status, auth |-> auth]

\* the login form and the logout button of the sidebar
SidebarForms(adm, ev) ==
    IF ~adm
    THEN IF ev.kind = "login"
         THEN LET r == check_admin(ev.a, ev.b)
              IN  IF r.t = "raise" THEN SidebarDone(adm, "form", "exception", r)
                  ELSE IF r.v THEN SidebarDone(TRUE, "form", "rerun", r)
                  ELSE SidebarDone(adm, "form", "continue", r)
         ELSE SidebarDone(adm, "form", "continue", Absent)
    ELSE IF ev.kind = "logout"
         THEN SidebarDone(FALSE, "admin", "rerun", Absent)
         ELSE SidebarDone(adm, "admin", "continue", Absent)

\* a sidebar showing the login form whatever ADMIN_PASS is
Sidebar_AlwaysForm(adm, ev) == SidebarForms(adm, ev)

\* a sidebar logging in whoever presses Entrar
Sidebar_NoCheck(adm, ev) ==
    IF ADMIN_PASS = <<>>
    THEN SidebarDone(FALSE, "disabled", "continue", Absent)
    ELSE IF ~adm /\ ev.kind = "login"
         THEN SidebarDone(TRUE, "form", "rerun", check_admin(ev.a, ev.b))
         ELSE SidebarForms(adm, ev)

\* with st.sidebar: the gate
Sidebar(adm, ev) ==
    IF ADMIN_PASS = <<>>
    THEN SidebarDone(FALSE, "disabled", "continue", Absent)
    ELSE SidebarForms(adm, ev)

\* the cloud branch of col1: the info box is shown instead of the cloud when
\* (not is_admin) and (not public_show)
CloudShown(adm, public_show) == ~((~adm) /\ (~public_show))

\* col2 showing the admin column to every session
AdminBranch_Always(adm) == TRUE

\* col2: `if not st.session_state.is_admin: ... else:` takes the admin branch
AdminBranch(adm) == adm

\* what col2 did: the store, the store operations run, whether st.rerun() was called
Col2Done(f, ops, rerun) == [file |-> f, ops |-> ops, rerun |-> rerun]

\* the buttons of the admin branch of col2, in the order the script reaches them
AdminControls(f, ev, now) ==
    CASE ev.kind = "hide" ->
           Col2Done(set_public_show_cloud(PyBool(FALSE), f, now).file,
                    <<"set_public_show_cloud">>, TRUE)
      [] ev.kind = "reveal" ->
           Col2Done(set_public_show_cloud(PyBool(TRUE), f, now).file,
                    <<"set_public_show_cloud">>, TRUE)
      [] ev.kind = "save_question" ->
           LET draft == IF Truthy(ev.a) THEN ev.a ELSE load_question(f, now).ret
           IN  Col2Done(set_question(draft, f, now).file, <<"set_question">>, TRUE)
      [] ev.kind = "restore_default" ->
           Col2Done(set_question(PyStr(DEFAULT_QUESTION), f, now).file,
                    <<"set_question">>, TRUE)
      [] ev.kind = "clear" ->
           Col2Done(set_public_show_cloud(PyBool(FALSE),
                                          clear_all_entries(f, now).file, now).file,
                    <<"clear_all_entries", "set_public_show_cloud">>, TRUE)
      [] OTHER -> Col2Done(f, <<>>, FALSE)

\* with col2
Col2(f, adm, ev, now) ==
    IF AdminBranch(adm) THEN AdminControls(f, ev, now) ELSE Col2Done(f, <<>>, FALSE)

\* what a script run did
ScriptDone(f, adm, v, auth, ops, gate) ==
    [file |-> f, is_admin |-> adm, view |-> v, auth |-> auth, ops |-> ops, gate |-> gate]

\* what a run that reaches the end of the script renders, after the sidebar
\* block did sb and load_public_show_cloud() returned show
ShownView(sb, show) ==
    View(sb.sidebar, TRUE, AdminBranch(sb.is_admin), show, CloudShown(sb.is_admin, show))

\* the body of the script with no button pressed
RenderBody(f, sb, show) ==
    ScriptDone(f, sb.is_admin, ShownView(sb, show), Absent, <<>>, sb.is_admin)

\* a script run to its end with no button pressed
RenderPass(f, adm, now) ==
    RenderBody(f, Sidebar(adm, NoEvent), load_public_show_cloud(f, now).ret.v)

\* st.rerun(): the run `again` is what the session ends with
Rerun(again, auth, ops, gate) ==
    ScriptDone(again.file, again.is_admin, again.view, auth, ops, gate)

\* the script after the sidebar block did sb; c2 is what col2 does when reached
ScriptBody(f, sb, show, c2, now) ==
    IF sb.status = "exception"
    THEN ScriptDone(f, sb.is_admin, View(sb.sidebar, FALSE, FALSE, FALSE, FALSE),
                    sb.auth, <<>>, sb.is_admin)
    ELSE IF sb.status = "rerun"
    THEN Rerun(RenderPass(f, sb.is_admin, now), sb.auth, <<>>, sb.is_admin)
    ELSE IF c2.rerun
    THEN Rerun(RenderPass(c2.file, sb.is_admin, now), sb.auth, c2.ops, sb.is_admin)
    ELSE ScriptDone(f, sb.is_admin, ShownView(sb, show), sb.auth, <<>>, sb.is_admin)

\* col2 of the run that follows the sidebar block sb
Col2After(f, sb, ev, now) == Col2(f, sb.is_admin, ev, now)

\* the script run an event starts, with the rerun st.rerun() asks for
Script(f, adm, ev, now) ==
    ScriptBody(f, Sidebar(adm, ev), load_public_show_cloud(f, now).ret.v,
               Col2After(f, Sidebar(adm, ev), ev, now), now)

\* answers typed into the public input of the page
UiAnswers == {<<>>, <<" ", "a">>}

\* answers typed into the public input, around the cut of raw[:200]
AnswerInputs ==
    {<<>>, <<" ">>, <<" ", "a", " ">>,
     Rep("a", AnswerCap),
     <<" ">> \o Rep("a", AnswerCap + 1),
     Rep("a", AnswerCap - 1) \o <<" ", "a">>}

\* what is typed into the fields Usuario and Senha: nothing, the configured
\* user, the configured password, a character that is not ASCII
UiCreds == {<<>>, <<"a">>, <<"b">>, <<"eacute">>}

\* texts typed into the question editor
DraftInputs == {PyStr(<<>>), PyStr(<<"b", " ">>)}

\* the store the page starts with: none yet, or one the app wrote earlier
UiInitFiles == {Missing, GoodDoc(<<Entry(<<"a">>, 0)>>)}

InitUI ==
    /\ LOCK_AVAILABLE = TRUE
    /\ file \in UiInitFiles
    /\ file0 = file
    /\ clock = 1
    /\ ADMIN_USER = <<"a">>
    /\ ADMIN_PASS \in {<<>>, <<"b">>}
    /\ user = PyNone /\ pwd = PyNone /\ authResult = Absent
    /\ ConcIdle
    /\ SeqIdle
    /\ UiIdle
    /\ TokIdle

\* the session state and the store after callback cb and script run r
Commit(s, ev, cb, r) ==
    /\ file' = r.file
    /\ is_admin' = [is_admin EXCEPT ![s] = r.is_admin]
    /\ view' = [view EXCEPT ![s] = r.view]
    /\ input_answer' = [input_answer EXCEPT ![s] = cb.input_answer]
    /\ uiEvent' = Handled(s, ev, r.auth, cb.ops \o r.ops, r.gate, r.file # file)

\* session s handles event ev: cb is what its callback did before the script ran
Handle(s, ev, cb) ==
    /\ nevents < MaxEvents
    /\ Commit(s, ev, cb, Script(cb.file, is_admin[s], ev, clock))
    /\ wasAdmin' = is_admin
    /\ nevents' = nevents + 1
    /\ clock' = clock + 1
    /\ UNCHANGED <<LOCK_AVAILABLE, file0, concVars, seqVars, authVars, tokVars>>

\* no callback ran
NoCallback(s) == CallbackDone(file, input_answer[s], <<>>)

\* the page is opened or reloaded
OpenPage(s) == Handle(s, Ev("open", PyNone, PyNone), NoCallback(s))

\* an answer is typed and Enter pressed: on_change=on_answer_change
Submit(s, raw) ==
    /\ view[s].body
    /\ Handle(s, Ev("submit", PyStr(raw), PyNone), on_answer_change(raw, file, clock))

\* Entrar, with what the two fields of the form hold
Login(s, u, p) ==
    /\ view[s].sidebar = "form"
    /\ Handle(s, Ev("login", u, p), NoCallback(s))

\* Sair
Logout(s) ==
    /\ view[s].sidebar = "admin"
    /\ Handle(s, Ev("logout", PyNone, PyNone), NoCallback(s))

\* Modo Coleta (ocultar do publico)
HideCloud(s) ==
    /\ view[s].admin
    /\ Handle(s, Ev("hide", PyNone, PyNone), NoCallback(s))

\* Revelar nuvem ao publico
RevealCloud(s) ==
    /\ view[s].admin
    /\ Handle(s, Ev("reveal", PyNone, PyNone), NoCallback(s))

\* Salvar pergunta, with what the editor holds
SaveQuestion(s, q) ==
    /\ view[s].admin
    /\ Handle(s, Ev("save_question", q, PyNone), NoCallback(s))

\* Restaurar padrao
RestoreDefault(s) ==
    /\ view[s].admin
    /\ Handle(s, Ev("restore_default", PyNone, PyNone), NoCallback(s))

\* Zerar nuvem (limpar respostas)
ClearAnswers(s) ==
    /\ view[s].admin
    /\ Handle(s, Ev("clear", PyNone, PyNone), NoCallback(s))

NextUI ==
    \E s \in Sessions :
        \/ OpenPage(s)
        \/ \E raw \in UiAnswers : Submit(s, raw)
        \/ \E u \in UiCreds, p \in UiCreds : Login(s, PyStr(u), PyStr(p))
        \/ Logout(s)
        \/ HideCloud(s)
        \/ RevealCloud(s)
        \/ \E q \in DraftInputs : SaveQuestion(s, q)
        \/ RestoreDefault(s)
        \/ ClearAnswers(s)

SpecUI == InitUI /\ [][NextUI]_vars

\* the public input alone: pages opened and answers submitted
NextAnswer ==
    \E s \in Sessions :
        \/ OpenPage(s)
        \/ \E raw \in AnswerInputs : Submit(s, raw)

SpecAnswer == InitUI /\ [][NextAnswer]_vars


(***************************************************************************)
(* The session gate and the public input.                                  *)
(***************************************************************************)
\* C11: when ADMIN_PASS is empty no session is ever Authenticated: after every
\* sequence of UI events in any session is_admin is false, the login form is
\* never rendered, and no run takes the admin branch of the page or runs an
\* admin operation.
C11_DisabledNeverAuthenticated ==
    ADMIN_PASS = <<>> =>
        /\ \A s \in Sessions :
              /\ ~is_admin[s]
              /\ ~view[s].admin
              /\ view[s].sidebar \in {"none", "disabled"}
        /\ ~uiEvent.gate
        /\ \A i \in DOMAIN uiEvent.ops : uiEvent.ops[i] = "append_entry"

\* with ADMIN_PASS empty, two sessions have run the script and one has answered
C11_Witness ==
    /\ ADMIN_PASS = <<>>
    /\ \A s \in Sessions : view[s].sidebar = "disabled" /\ view[s].body
    /\ uiEvent.ev.kind = "submit"
    /\ uiEvent.changed

\* the session whose event was handled last
Actor == uiEvent.s

\* C12: a session's gate is Anonymous (is_admin false) or Authenticated
\* (is_admin true) and starts Anonymous; it becomes Authenticated only in a
\* step handling a login of that session whose check_admin returned True, a
\* login whose check_admin did not return True leaves it as it was, a logout
\* of an Authenticated session leaves it Anonymous, and an event of one
\* session leaves the gate of every other session unchanged.
C12_GateTransitions ==
    /\ \A s \in Sessions : is_admin[s] \in BOOLEAN
    /\ nevents = 0 => \A s \in Sessions : ~is_admin[s]
    /\ nevents > 0 =>
          /\ \A t \in Sessions \ {Actor} : is_admin[t] = wasAdmin[t]
          /\ (~wasAdmin[Actor] /\ is_admin[Actor]) =>
                /\ uiEvent.ev.kind = "login"
                /\ uiEvent.auth = PyBool(TRUE)
                /\ uiEvent.ev.a.v = ADMIN_USER
                /\ uiEvent.ev.b.v = ADMIN_PASS
          /\ (uiEvent.ev.kind = "login" /\ uiEvent.auth # PyBool(TRUE)) =>
                ~is_admin[Actor]
          /\ (uiEvent.ev.kind = "logout" /\ wasAdmin[Actor]) => ~is_admin[Actor]

\* two sessions logged in, then one of them logged out and the other stayed
\* Authenticated
C12_Witness ==
    /\ uiEvent.ev.kind = "logout"
    /\ wasAdmin[Actor]
    /\ ~is_admin[Actor]
    /\ \E t \in Sessions \ {Actor} : is_admin[t]

\* the store operations only the admin controls call
AdminOps == {"set_question", "clear_all_entries", "set_public_show_cloud"}

\* C13: every set_question, clear_all_entries and set_public_show_cloud is run
\* by a script run whose session is Authenticated when the run reaches it, and
\* an event of a session that is Anonymous changes DATA_PATH only by
\* append_entry.
C13_AdminOpsOnlyWhenAuthenticated ==
    nevents > 0 =>
        /\ \A i \in DOMAIN uiEvent.ops : uiEvent.ops[i] \in AdminOps => uiEvent.gate
        /\ (uiEvent.changed /\ ~uiEvent.gate) => uiEvent.ops = <<"append_entry">>
        /\ (uiEvent.changed /\ ~wasAdmin[Actor] /\ uiEvent.ev.kind # "login") =>
              uiEvent.ops = <<"append_entry">>

\* an Authenticated session cleared the answers, which changed the store
C13_Witness ==
    /\ uiEvent.ev.kind = "clear"
    /\ uiEvent.gate
    /\ uiEvent.changed
    /\ uiEvent.ops = <<"clear_all_entries", "set_public_show_cloud">>
    /\ \E t \in Sessions \ {Actor} : ~is_admin[t] /\ view[t].body

\* the answer typed in a submit event
Typed == uiEvent.ev.a.v

\* the text of the last persisted entry
LastText == PersistedEntries(file)[Len(PersistedEntries(file))].text

\* t is s without its leading whitespace, cut at n characters, and s has a
\* character that is not whitespace
IsCutOf(t, s, n) ==
    \E i \in 0..Len(s) :
        /\ \A j \in 1..i : s[j] = " "
        /\ i < Len(s) /\ s[i + 1] # " "
        /\ Len(t) <= n
        /\ i + Len(t) <= Len(s)
        /\ t = SubSeq(s, i + 1, i + Len(t))
        /\ Len(t) = n \/ \A j \in (i + Len(t) + 1)..Len(s) : s[j] = " "

\* C19: every entry persisted through on_answer_change has a text of 1 to 200
\* characters that does not start with whitespace; a submission that is empty
\* or only whitespace runs no store operation and leaves DATA_PATH unchanged;
\* every submission leaves input_answer empty.
C19_SubmittedTextBounds ==
    /\ \A i \in DOMAIN PersistedEntries(file) :
          /\ Len(PersistedEntries(file)[i].text) \in 1..AnswerCap
          /\ PersistedEntries(file)[i].text[1] # " "
    /\ uiEvent.ev.kind = "submit" =>
          /\ input_answer[Actor] = <<>>
          /\ (\A j \in DOMAIN Typed : Typed[j] = " ") =>
                (~uiEvent.changed /\ uiEvent.ops = <<>>)
          /\ (\E j \in DOMAIN Typed : Typed[j] # " ") =>
                /\ uiEvent.changed
                /\ uiEvent.ops = <<"append_entry">>
                /\ IsCutOf(LastText, Typed, AnswerCap)

\* an answer longer than the cap, typed after a space, was persisted cut
C19_Witness ==
    /\ uiEvent.ev.kind = "submit"
    /\ Len(Typed) > AnswerCap + 1
    /\ Typed[1] = " "
    /\ Len(LastText) = AnswerCap
    /\ Len(PersistedEntries(file)) >= 2


(***************************************************************************)
(* Visibility of the cloud: the Authenticated session reveals and hides    *)
(* while Anonymous sessions answer and load, each call a with_lock cycle.  *)
(***************************************************************************)
\* the session that passed the gate; every other caller is Anonymous
AdminCaller == 1

\* the store calls a session's events make: the visibility buttons of the
\* admin column, the answer callback and the loads of a render
VisOps(c) ==
    IF c = AdminCaller
    THEN {Op("set_public_show_cloud", PyBool(TRUE)),
          Op("set_public_show_cloud", PyBool(FALSE))}
    ELSE {Op("append_entry", <<"a">>), Op("load_data", PyNone)}

\* the page starts with no store
InitVis ==
    /\ LOCK_AVAILABLE \in BOOLEAN
    /\ file = Missing
    /\ file0 = file
    /\ clock = 1
    /\ ConcIdle
    /\ SeqIdle
    /\ AuthIdle
    /\ UiIdle
    /\ TokIdle

\* the call returned to the script, which may call the store again
Again(c) ==
    /\ pc[c] = "done"
    /\ clock <= MaxTicks
    /\ pc' = [pc EXCEPT ![c] = "idle"]
    /\ UNCHANGED <<storeVars, lock, op, data, ret, overlap, seqVars, authVars, uiVars, tokVars>>

NextVis ==
    \E c \in Callers :
        \/ \E o \in VisOps(c) : Start(c, o)
        \/ Enter(c)
        \/ Read(c)
        \/ Modify(c)
        \/ Dump(c)
        \/ Exit(c)
        \/ Again(c)

SpecVis == InitVis /\ [][NextVis]_vars

\* the render of an Anonymous session that loads the store now shows the cloud
PublicCloudShown == CloudShown(FALSE, load_public_show_cloud(file, clock).ret.v)

\* C14 as claimed: from a fresh store, an Anonymous session's render shows the
\* cloud only if the latest visibility write at the time of its load was an
\* Authenticated set_public_show_cloud(True): when the last call of the
\* Authenticated session, set_public_show_cloud(False), has returned, no
\* Anonymous render shows the cloud.
C14_CloudOnlyAfterLatestReveal ==
    (pc[AdminCaller] = "done" /\ op[AdminCaller] = Op("set_public_show_cloud", PyBool(FALSE)))
        => ~PublicCloudShown


\* new is old unchanged, old with one entry appended at the end, or empty
EntriesStep(old, new) ==
    \/ new = old
    \/ new = <<>>
    \/ Len(new) = Len(old) + 1 /\ SubSeq(new, 1, Len(old)) = old

\* C18 as claimed: under any interleaving of sessions, every write of the
\* Document by a store operation, begun while no other write is under way,
\* replaces the entries sequence persisted until then by the same sequence, by
\* that sequence with exactly one entry appended at the end, or by the empty
\* sequence.
C18_EntriesTransitions ==
    [][\A c \in Callers :
          (/\ pc[c] = "modify" /\ pc'[c] = "dump"
           /\ \A d \in Callers \ {c} : pc[d] # "dump") =>
              EntriesStep(PersistedEntries(file), EntriesOf(data'[c]).v)]_vars


\* the keys of a Document
DocKeys == {"question", "entries", "public_show_cloud", "created_at", "updated_at"}

\* the field a mutating operation is there to change
OwnField(name) ==
    CASE name = "append_entry"          -> "entries"
      [] name = "clear_all_entries"     -> "entries"
      [] name = "set_question"          -> "question"
      [] name = "set_public_show_cloud" -> "public_show_cloud"

\* the last call was a mutating operation that wrote the Document
Wrote == call.name \in Mutators /\ result = PyNone

\* the Document the operation of the last call read, and the one it left
DocBefore == load_data(prev, clock - 1).ret.v
DocAfter  == load_data(file, clock).ret.v

\* C20: a mutating store operation leaves every field of the Document other
\* than its own field and updated_at as it read them: append_entry and
\* clear_all_entries keep question and public_show_cloud, set_question keeps
\* entries and public_show_cloud, set_public_show_cloud keeps entries and
\* question, and all four keep created_at.
C20_OnlyOwnFieldChanges ==
    Wrote =>
        \A k \in DocKeys \ {OwnField(call.name), "updated_at"} :
            DocAfter[k] = DocBefore[k]

\* set_public_show_cloud changed the flag of a Document that holds an entry, a
\* question and a creation time
C20_Witness ==
    /\ Wrote
    /\ call = Op("set_public_show_cloud", PyBool(FALSE))
    /\ DocBefore.public_show_cloud = PyBool(TRUE)
    /\ DocAfter.public_show_cloud = PyBool(FALSE)
    /\ DocAfter.entries = PyList(<<Entry(<<"a">>, 0)>>)
    /\ DocAfter.question = PyStr(<<"a">>)
    /\ DocAfter.created_at = PyNum(0)
    /\ DocAfter.updated_at # DocBefore.updated_at


(***************************************************************************)
(* Tokenização.                                                            *)
(***************************************************************************)
\* the characters texts are written with: two lower-case letters, an
\* upper-case letter, whitespace, a digit, and the division sign U+00F7
TokChars == {"a", "d", "A", " ", "1", "divide"}

\* alphabetic characters
IsLetter(ch) == ch \in {"a", "d", "A"}

\* the members of STOPWORDS_PT spelled with the letters of TokChars
STOPWORDS_PT == {<<"a">>, <<"d", "a">>}

\* str.lower() of one character
Lower(ch) == IF ch = "A" THEN "a" ELSE ch

\* str.lower()
LowerStr(s) == [i \in 1..Len(s) |-> Lower(s[i])]

\* re.sub(r"\s+", " ", texto)
RECURSIVE CollapseSpaces(_)
CollapseSpaces(s) ==
    IF Len(s) < 2 THEN s
    ELSE IF IsSpace(s[1]) /\ IsSpace(s[2]) THEN CollapseSpaces(Tail(s))
    ELSE <<IF IsSpace(s[1]) THEN " " ELSE s[1]>> \o CollapseSpaces(Tail(s))

\* one character matching [a-zà-ÿ] under re.IGNORECASE: the range à-ÿ is
\* U+00E0..U+00FF, which holds U+00F7
WordChar(ch) == ch \in {"a", "d"} \/ ch = "A" \/ ch = "divide"

\* _word_re.findall(s) from position i on: cur is the match under way, acc the
\* matches found
RECURSIVE FindAllFrom(_, _, _, _)
FindAllFrom(s, i, cur, acc) ==
    IF i > Len(s)
    THEN IF cur = <<>> THEN acc ELSE Append(acc, cur)
    ELSE IF WordChar(s[i])
    THEN FindAllFrom(s, i + 1, Append(cur, s[i]), acc)
    ELSE FindAllFrom(s, i + 1, <<>>, IF cur = <<>> THEN acc ELSE Append(acc, cur))

\* _word_re.findall(s): the maximal runs of matching characters, left to right
FindAll(s) == FindAllFrom(s, 1, <<>>, <<>>)

\* the loop of tokenizar keeping every token that is not a stopword
KeepToken_AnyLength(tk) == tk \notin STOPWORDS_PT

\* the loop of tokenizar: a token is kept unless len(tk) < 2 or tk in STOPWORDS_PT
KeepToken(tk) == ~(Len(tk) < 2) /\ tk \notin STOPWORDS_PT

\* tk.lower().strip()
CleanToken(tk) == Strip(LowerStr(tk))

\* the for loop of tokenizar over the matches
RECURSIVE FilterTokens(_)
FilterTokens(tks) ==
    IF tks = <<>> THEN <<>>
    ELSE (IF KeepToken(CleanToken(Head(tks))) THEN <<CleanToken(Head(tks))>> ELSE <<>>)
         \o FilterTokens(Tail(tks))

tokenizar(t) ==
    FilterTokens(FindAll(CollapseSpaces(Strip(LowerStr(PyOr(t, PyStr(<<>>)).v)))))

\* the arguments tokenizar is called with
TokInputs == {PyNone} \cup {PyStr(s) : s \in StringsUpTo(TokChars, MaxTextLen)}

StoreIdle ==
    /\ LOCK_AVAILABLE = TRUE /\ file = Missing /\ file0 = Missing /\ clock = 1

InitTok ==
    /\ texto \in TokInputs
    /\ tokens = Absent
    /\ respostas_all = <<>> /\ tokens_all = Absent /\ cont = Absent /\ top = Absent
    /\ StoreIdle
    /\ ConcIdle
    /\ SeqIdle
    /\ AuthIdle
    /\ UiIdle

\* tokenizar(texto) is called and returns
Tokenizar ==
    /\ tokens = Absent
    /\ tokens' = PyList(tokenizar(texto))
    /\ UNCHANGED <<texto, respostas_all, tokens_all, cont, top>>
    /\ UNCHANGED <<storeVars, concVars, seqVars, authVars, uiVars>>

NextTok == Tokenizar

SpecTok == InitTok /\ [][NextTok]_vars

\* the text tokenizar was called with, None as the empty string
TextArg == IF texto.t = "str" THEN texto.v ELSE <<>>

\* the tokens occur in s one after another, from position `from` on
RECURSIVE OccurInOrder(_, _, _)
OccurInOrder(tks, s, from) ==
    tks = <<>> \/
    \E p \in from..(Len(s) - Len(Head(tks)) + 1) :
        /\ SubSeq(s, p, p + Len(Head(tks)) - 1) = Head(tks)
        /\ OccurInOrder(Tail(tks), s, p + Len(Head(tks)))

\* s[i..j] is a word of s: a maximal run of characters other than whitespace
IsWordAt(s, i, j) ==
    /\ i <= j
    /\ \A k \in i..j : s[k] # " "
    /\ i = 1 \/ s[i - 1] = " "
    /\ j = Len(s) \/ s[j + 1] = " "

\* s is made only of stopwords and one-letter words
OnlySmallWords(s) ==
    \A i \in 1..Len(s), j \in 1..Len(s) :
        IsWordAt(s, i, j) =>
            /\ \A k \in i..j : IsLetter(s[k])
            /\ i = j \/ LowerStr(SubSeq(s, i, j)) \in STOPWORDS_PT

\* C15: for every input (None and the empty string included) every token
\* tokenizar returns has at least 2 characters and is not in STOPWORDS_PT, the
\* tokens occur in the lower-cased input one after another in the order
\* returned, and an input made only of stopwords and one-letter words yields
\* the empty sequence.
C15_TokensFiltered ==
    tokens # Absent =>
        /\ \A i \in DOMAIN tokens.v :
              Len(tokens.v[i]) >= 2 /\ tokens.v[i] \notin STOPWORDS_PT
        /\ OccurInOrder(tokens.v, LowerStr(TextArg), 1)
        /\ OnlySmallWords(TextArg) => tokens.v = <<>>

\* two tokens were returned from a text holding an upper-case letter
C15_Witness ==
    /\ tokens # Absent
    /\ Len(tokens.v) = 2
    /\ tokens.v[1] # tokens.v[2]
    /\ \E i \in DOMAIN TextArg : TextArg[i] = "A"

\* C16 as claimed: an input made only of characters that are not letters
\* (digits, and symbols among them the one between U+00E0 and U+00FF) yields
\* the empty sequence, and no returned token holds a character that is not a
\* letter.
C16_SymbolsOnlySeparate ==
    tokens # Absent =>
        /\ (\A i \in DOMAIN TextArg : ~IsLetter(TextArg[i]) /\ TextArg[i] # " ")
              => tokens.v = <<>>
        /\ \A i \in DOMAIN tokens.v :
              \A k \in DOMAIN tokens.v[i] : IsLetter(tokens.v[i][k])


(***************************************************************************)
(* Resumo (Admin): the token count and the top words.                      *)
(***************************************************************************)
\* cont.most_common(15)
TopN == 15

\* compute_tokens_from_respostas: toks.extend(tokenizar(r)) for each r
RECURSIVE compute_tokens_from_respostas(_)
compute_tokens_from_respostas(respostas) ==
    IF respostas = <<>> THEN <<>>
    ELSE tokenizar(PyStr(Head(respostas))) \o compute_tokens_from_respostas(Tail(respostas))

\* one item of a Counter
Item(termo, freq) == [termo |-> termo, freq |-> freq]

\* Counter.update with one element: its count raised, or a new key at the end
CountOne(c, tk) ==
    IF \E i \in DOMAIN c : c[i].termo = tk
    THEN [i \in DOMAIN c |-> IF c[i].termo = tk THEN Item(tk, c[i].freq + 1) ELSE c[i]]
    ELSE Append(c, Item(tk, 1))

\* Counter(tks): the items in the order their keys were first seen
RECURSIVE Counter(_)
Counter(tks) ==
    IF tks = <<>> THEN <<>>
    ELSE CountOne(Counter(SubSeq(tks, 1, Len(tks) - 1)), tks[Len(tks)])

\* the first item with the largest count
FirstMax(c) ==
    CHOOSE i \in DOMAIN c :
        /\ \A j \in DOMAIN c : c[j].freq <= c[i].freq
        /\ \A j \in 1..(i - 1) : c[j].freq < c[i].freq

\* c without its item i
Without(c, i) == SubSeq(c, 1, i - 1) \o SubSeq(c, i + 1, Len(c))

\* most_common returning the first n items in insertion order
most_common_Unsorted(c, n) == SubSeq(c, 1, IF Len(c) < n THEN Len(c) ELSE n)

\* Counter.most_common(n): the n items with the largest counts, largest first,
\* equal counts in insertion order
RECURSIVE most_common(_, _)
most_common(c, n) ==
    IF n = 0 \/ c = <<>> THEN <<>>
    ELSE <<c[FirstMax(c)]>> \o most_common(Without(c, FirstMax(c)), n - 1)

\* sum(cont.values())
RECURSIVE SumValues(_)
SumValues(c) == IF c = <<>> THEN 0 ELSE Head(c).freq + SumValues(Tail(c))

\* the k-th word answers are written with
Word(k) == Rep("d", k + 1)

\* the words i..j, each followed by a space
RECURSIVE WordsText(_, _)
WordsText(i, j) == IF i > j THEN <<>> ELSE Word(i) \o <<" ">> \o WordsText(i + 1, j)

\* the entry texts loaded for a render: n different words over two answers,
\* then an answer repeating the words k and j around a stopword
Respostas(n, k, j) ==
    <<WordsText(1, n \div 2), WordsText(n \div 2 + 1, n),
      Word(k) \o <<" ", "d", "a", " ">> \o Word(j)>>

TopInputs ==
    {<<>>, <<<<"a">>>>}
    \cup {Respostas(n, k, j) : n \in 1..MaxWords, k \in 1..MaxWords, j \in 1..MaxWords}

InitTop ==
    /\ respostas_all \in TopInputs
    /\ tokens_all = Absent /\ cont = Absent /\ top = Absent
    /\ texto = PyNone /\ tokens = Absent
    /\ StoreIdle
    /\ ConcIdle
    /\ SeqIdle
    /\ AuthIdle
    /\ UiIdle

\* the admin summary of a render
AdminSummary ==
    /\ top = Absent
    /\ tokens_all' = PyList(compute_tokens_from_respostas(respostas_all))
    /\ cont' = PyList(Counter(tokens_all'.v))
    /\ top' = PyList(most_common(cont'.v, TopN))
    /\ UNCHANGED <<texto, tokens, respostas_all>>
    /\ UNCHANGED <<storeVars, concVars, seqVars, authVars, uiVars>>

NextTop == AdminSummary

SpecTop == InitTop /\ [][NextTop]_vars

\* how many times tk occurs in tks
Occurrences(tk, tks) == Cardinality({i \in DOMAIN tks : tks[i] = tk})

\* where tk occurs first in tks
FirstSeen(tk, tks) == CHOOSE i \in DOMAIN tks : tks[i] = tk /\ \A j \in 1..(i - 1) : tks[j] # tk

\* the different tokens of tks
Distinct(tks) == {tks[i] : i \in DOMAIN tks}

\* tk comes before tk2 in the ranking of tks: counted more often, or as often
\* and seen first
RanksBefore(tk, tk2, tks) ==
    \/ Occurrences(tk, tks) > Occurrences(tk2, tks)
    \/ /\ Occurrences(tk, tks) = Occurrences(tk2, tks)
       /\ FirstSeen(tk, tks) < FirstSeen(tk2, tks)

\* the tokens of each entry text, one entry after another
RECURSIVE TokensOfAll(_)
TokensOfAll(rs) ==
    IF rs = <<>> THEN <<>> ELSE TokensOfAll(SubSeq(rs, 1, Len(rs) - 1)) \o tokenizar(PyStr(rs[Len(rs)]))

\* C17: the admin top-words list is computed from the tokens of all entry
\* texts loaded for the render: each pair holds a token and the number of its
\* occurrences, the pairs are in descending count with equal counts in
\* first-seen order, every token left out ranks after every pair, the list has
\* at most 15 pairs, and the counts of the Counter add up to the number of
\* tokens.
C17_TopWords ==
    top # Absent =>
        LET tks == tokens_all.v
        IN  /\ tks = TokensOfAll(respostas_all)
            /\ Len(top.v) = (IF Cardinality(Distinct(tks)) < TopN
                            THEN Cardinality(Distinct(tks)) ELSE TopN)
            /\ \A i \in DOMAIN top.v :
                  /\ top.v[i].termo \in Distinct(tks)
                  /\ top.v[i].freq = Occurrences(top.v[i].termo, tks)
            /\ \A i \in DOMAIN top.v, j \in DOMAIN top.v :
                  i < j => RanksBefore(top.v[i].termo, top.v[j].termo, tks)
            /\ \A tk \in Distinct(tks) \ {top.v[i].termo : i \in DOMAIN top.v} :
                  \A i \in DOMAIN top.v : RanksBefore(top.v[i].termo, tk, tks)
            /\ SumValues(cont.v) = Len(tks)

\* more than 15 different tokens were counted, two of them twice, the later
\* seen of the two first in the text that repeats them
C17_Witness ==
    /\ top # Absent
    /\ Cardinality(Distinct(tokens_all.v)) > TopN
    /\ Len(top.v) = TopN
    /\ top.v[1].freq = 2 /\ top.v[2].freq = 2 /\ top.v[3].freq = 1
    /\ top.v[1].termo = Word(TopN + 1)
    /\ top.v[2].termo = Word(TopN + 2)
    /\ respostas_all[3] = Word(TopN + 2) \o <<" ", "d", "a", " ">> \o Word(TopN + 1)


(***************************************************************************)
(* Reads and the lock.                                                     *)
(***************************************************************************)
\* the mutating calls whose _write_data has finished
Written ==
    {d \in Callers : op[d].name \in Mutators /\ pc[d] \in {"exit", "done"} /\ ret[d] = PyNone}

\* the contents DATA_PATH had between writes: the one the callers found and
\* the one each finished _write_data left
CompleteContents == {file0} \cup {WriteDump(data[d]) : d \in Written}

\* the load_data calls that have read
Loaded == {c \in Callers : op[c].name = "load_data" /\ pc[c] \in {"exit", "done"}}

\* C21: when the file lock is available, no caller is at its _read_data while
\* another is between open(DATA_PATH, "w") and the end of json.dump, the file a
\* caller is about to read is one of the complete contents (the one before any
\* write or the one a finished write left), and every Document load_data
\* returned is the reading of one of them: never the default Document read
\* from a truncated file.
C21_LoadSeesCompleteDocument ==
    LOCK_AVAILABLE =>
        /\ \A c \in Callers :
              pc[c] = "read" =>
                  /\ \A d \in Callers : pc[d] # "dump"
                  /\ file \in CompleteContents
        /\ \A c \in Loaded :
              \E f \in CompleteContents, t \in 1..clock : ret[c] = PyDict(_read_data(f, t))
        /\ (file0.t = "json" /\ file0.v.t = "dict") =>
              \A c \in Loaded : ret[c].v.created_at = file0.v.v.created_at

\* load_data was called while an append_entry was inside with_lock, and
\* returned the Document the append wrote
C21_Witness ==
    /\ LOCK_AVAILABLE
    /\ overlap
    /\ file0 = GoodDoc(<<>>)
    /\ \E c \in Loaded, d \in Written :
          /\ pc[c] = "done" /\ pc[d] = "done"
          /\ op[d].name = "append_entry"
          /\ ret[c].v.entries.v # <<>>
          /\ ret[c] = PyDict(_read_data(WriteDump(data[d]), clock))


\* the threads of the sessions keep running, and a caller that finds the lock
\* free again and again gets it
Fairness ==
    \A c \in Callers :
        /\ SF_vars(Enter(c))
        /\ WF_vars(Read(c))
        /\ WF_vars(Modify(c))
        /\ WF_vars(Dump(c))
        /\ WF_vars(Exit(c))

\* the calls of the sessions: an answer appended, the store loaded
LiveOps == {Op("append_entry", <<"a">>), Op("load_data", PyNone)}

\* a well-formed store, or one whose entries make append_entry raise
InitLive ==
    /\ LOCK_AVAILABLE \in BOOLEAN
    /\ file \in {GoodDoc(<<>>), NullEntriesDoc}
    /\ file0 = file
    /\ clock = 1
    /\ ConcIdle
    /\ SeqIdle
    /\ AuthIdle
    /\ UiIdle
    /\ TokIdle

NextLive ==
    \E c \in Callers :
        \/ \E o \in LiveOps : Start(c, o)
        \/ Enter(c)
        \/ Read(c)
        \/ Modify(c)
        \/ Dump(c)
        \/ Exit(c)

\* concurrent store calls under fair scheduling and fair lock acquisition
SpecLive == InitLive /\ [][NextLive]_vars /\ Fairness

\* the positions of a caller inside the with lock block
InsideLock == {"read", "modify", "dump", "exit"}

\* the lock is held by exactly the callers inside a with lock block
HeldOnlyInCycle ==
    \A c \in Callers : (lock = c) <=> (LOCK_AVAILABLE /\ pc[c] \in InsideLock)

\* a caller asking for the lock does not hold it
NoReentry == \A c \in Callers : pc[c] = "enter" => lock # c

\* while a call is under way some caller can take a step
NoDeadlock ==
    (\E c \in Callers : pc[c] \notin {"idle", "done"}) =>
        \E c \in Callers :
            ENABLED (Enter(c) \/ Read(c) \/ Modify(c) \/ Dump(c) \/ Exit(c))

\* C22: the lock is held exactly while a caller is inside one load or
\* load-modify-store cycle and is free again after every way out of it, a
\* raising inner() included; no caller asks for the lock while holding it; in
\* every state with a call under way some caller can step; and under fair lock
\* acquisition every caller that asked for the lock completes its operation.
C22_LockReleasedAndProgress ==
    /\ [](HeldOnlyInCycle /\ NoReentry /\ NoDeadlock)
    /\ \A c \in Callers : (pc[c] = "enter") ~> (pc[c] = "done")

\* with the lock available, an append_entry raised inside the lock while a
\* load_data was under way; both calls have returned and the lock is free
C22_Witness ==
    /\ LOCK_AVAILABLE
    /\ overlap
    /\ lock = 0
    /\ \A c \in Callers : pc[c] = "done"
    /\ \E c \in Callers : op[c].name = "append_entry" /\ ret[c].t = "raise"
    /\ \E c \in Callers : op[c].name = "load_data" /\ ret[c].t = "dict"

=============================================================================
